---- MODULE Spec2Model ----
(***************************************************************************)
(* TrashCommand: a dispatcher that consumes Slack reaction events from a   *)
(* Redis pub/sub channel and either deletes the reacted-to message at once *)
(* (reaction "wastebasket") or hands it to the TimeBomb channel for a      *)
(* deferred deletion (reaction "bomb").                                    *)
(*                                                                         *)
(* The model follows main(), handleMessage(), deleteMessage(),             *)
(* publishToTimeBomb() and isBot().  handleMessage blocks in two places,   *)
(* the Slack delete call and the Redis publish; the signal goroutine can   *)
(* run while it is blocked, so each of those calls is an issue step        *)
(* (inside HandleMessage) and a return step.  The payload, the calls       *)
(* issued for it and the lines logged for it belong to one invocation of   *)
(* handleMessage and are dropped when it returns to the loop.              *)
(***************************************************************************)
EXTENDS Integers, Sequences, FiniteSets, TLC

(* ----------------------------- bounds ---------------------------------- *)

\* Longest authorizations list of an inbound payload.
MaxAuths == 2
\* A TIMEBOMB_TTL_SECONDS setting other than the default.
OtherTTL == 30

(* ------------------------- program constants --------------------------- *)

LogLevelDebug == 0
LogLevelInfo == 1
LogLevelError == 2

DefaultTTL == 5

DefaultTimeBombChannel == "timebomb-messages"

(* --------------------------- inbound payloads -------------------------- *)

\* A JSON member that the document does not contain.
Absent == "<absent>"
\* A JSON member whose value is not a string (a number, an object, ...).
NotText == "<not-text>"

EventTypeDocs == {Absent, NotText, "reaction_added", "reaction_removed"}
UserDocs == {"U1", "U2"}
ReactionDocs == {"wastebasket", "bomb", "eyes", "Wastebasket", Absent}
ItemTypeDocs == {"message", "file"}
ChannelDocs == {"C1", Absent}
TSDocs == {"100.1", Absent}
AuthUserDocs == {"U1", "U2"}

AuthDocs == [user_id : AuthUserDocs, is_bot : BOOLEAN]

AuthListsUpTo(n) == UNION {[1..k -> AuthDocs] : k \in 0..n}

\* The "item" member: absent, or an object with its three members.
ItemDocs ==
    {[present |-> FALSE, type |-> Absent, channel |-> Absent, ts |-> Absent]}
    \cup [present : {TRUE}, type : ItemTypeDocs, channel : ChannelDocs, ts : TSDocs]

\* The "authorizations" member: absent, or an array of records.
AuthsDocs ==
    {[present |-> FALSE, list |-> <<>>]}
    \cup [present : {TRUE}, list : AuthListsUpTo(MaxAuths)]

\* A text that is not a syntactically valid JSON document.
Malformed ==
    [syntax |-> FALSE, type |-> Absent, user |-> Absent, reaction |-> Absent,
     item |-> [present |-> FALSE, type |-> Absent, channel |-> Absent, ts |-> Absent],
     authorizations |-> [present |-> FALSE, list |-> <<>>]]

\* The payloads the inbound channel can deliver.
Payloads ==
    {Malformed}
    \cup [syntax : {TRUE}, type : EventTypeDocs, user : UserDocs,
          reaction : ReactionDocs, item : ItemDocs, authorizations : AuthsDocs]

\* The payload register while no invocation of handleMessage is active.
NoPayload == Malformed

(* ------------------------------ decoding ------------------------------- *)

\* encoding/json leaves the zero value in a string field whose member is absent.
StringField(v) == IF v = Absent THEN "" ELSE v

\* The error of json.Unmarshal left unexamined.
UnmarshalErrorIgnored(p) == FALSE

\* json.Unmarshal decoding into untyped values: only the syntax can fail.
UnmarshalErrorSyntaxOnly(p) == ~p.syntax

\* json.Unmarshal fails on a text that is no JSON document, and on a string
\* field whose member holds a value of another JSON type.
UnmarshalError(p) == ~p.syntax \/ p.type = NotText

\* The ReactionEvent json.Unmarshal fills in (the fields handleMessage reads).
Unmarshal(p) ==
    [Event |->
        [Type |-> StringField(p.type),
         User |-> StringField(p.user),
         Reaction |-> StringField(p.reaction),
         Item |-> [Type |-> StringField(p.item.type),
                   Channel |-> StringField(p.item.channel),
                   TS |-> StringField(p.item.ts)]],
     Authorizations |->
        [i \in 1..Len(p.authorizations.list) |->
            [UserID |-> p.authorizations.list[i].user_id,
             IsBot |-> p.authorizations.list[i].is_bot]]]

(* --------------------------- configuration ----------------------------- *)

LogLevelEnv == {"", "debug", "DEBUG", "info", "ERROR", "verbose"}

\* strings.ToUpper on the settings of LOG_LEVEL.
ToUpper(s) ==
    CASE s = "debug" -> "DEBUG"
      [] s = "info" -> "INFO"
      [] OTHER -> s

getEnv(value, defaultValue) == IF value = "" THEN defaultValue ELSE value

parseLogLevel(level) ==
    CASE ToUpper(level) = "DEBUG" -> LogLevelDebug
      [] ToUpper(level) = "INFO" -> LogLevelInfo
      [] ToUpper(level) = "ERROR" -> LogLevelError
      [] OTHER -> LogLevelInfo

\* TIMEBOMB_TTL_SECONDS: unset, a decimal number, or a text strconv.Atoi rejects.
TTLEnv == {[set |-> FALSE, number |-> FALSE, value |-> 0],
           [set |-> TRUE, number |-> TRUE, value |-> OtherTTL],
           [set |-> TRUE, number |-> TRUE, value |-> DefaultTTL],
           [set |-> TRUE, number |-> FALSE, value |-> 0]}

getEnvInt(env, defaultValue) ==
    IF ~env.set THEN defaultValue
    ELSE IF ~env.number THEN defaultValue
    ELSE env.value

TokenEnv == {"", "xoxb-token"}

TimeBombChannelEnv == {"", "custom-timebomb"}

(* ------------------------------- state --------------------------------- *)

VARIABLES
    config,            \* Config: read-only after startup
    currentLogLevel,   \* the process-wide verbosity
    loop,              \* "Starting", "Running", "Stopped" or "Aborted"
    ctxDone,           \* cancel() has been called
    chClosed,          \* the inbound channel has been closed
    pc,                \* "idle" (main is in select), or where handleMessage
                       \* is: "deleting", "publishing", "return"
    payload,           \* the payload handleMessage was called with
    calls,             \* external calls issued for that payload, in order
    logs,              \* log calls made for that payload, in order
    mainLogs,          \* log calls made by main and its signal goroutine
    inbound,           \* the next message on the subscription's channel:
                       \* "empty", or one that came in before ("early") or
                       \* after ("late") cancel() was called
    lastOutcome,       \* while main is in select: how the invocation of
                       \* handleMessage that returned last ended
    seen               \* history: the recorded receipts, each with the
                       \* payload, what handleMessage decided for it, and
                       \* whether the payload had been received before

vars == <<config, currentLogLevel, loop, ctxDone, chClosed, pc, payload,
          calls, logs, mainLogs, inbound, lastOutcome, seen>>

(* ------------------------------- logging ------------------------------- *)

logDebug(msg) == [level |-> LogLevelDebug, msg |-> msg]
logInfo(msg) == [level |-> LogLevelInfo, msg |-> msg]
logError(msg) == [level |-> LogLevelError, msg |-> msg]

\* The level test of the log functions with its comparison turned round.
PrintedInverted(lines) == SelectSeq(lines, LAMBDA e : currentLogLevel >= e.level)

\* The lines that reach the log: each log function prints only when the
\* current level is at most its own.
Printed(lines) == SelectSeq(lines, LAMBDA e : currentLogLevel <= e.level)

Emitted == Printed(logs)

(* ---------------------------- classification --------------------------- *)

\* isBot looking at the first authorization record only.
isBotFirstRecordOnly(event) ==
    /\ Len(event.Authorizations) > 0
    /\ event.Authorizations[1].UserID = event.Event.User
    /\ event.Authorizations[1].IsBot

\* isBot without the comparison of the record's user with the event's user.
isBotAnyUser(event) ==
    \E i \in 1..Len(event.Authorizations) : event.Authorizations[i].IsBot

\* isBot failing closed: without any authorization record the user is a bot.
isBotFailClosed(event) ==
    \/ Len(event.Authorizations) = 0
    \/ \E i \in 1..Len(event.Authorizations) :
          /\ event.Authorizations[i].UserID = event.Event.User
          /\ event.Authorizations[i].IsBot

RECURSIVE isBotFrom(_, _)
isBotFrom(event, i) ==
    IF i > Len(event.Authorizations) THEN FALSE
    ELSE IF event.Authorizations[i].UserID = event.Event.User
            /\ event.Authorizations[i].IsBot
         THEN TRUE
         ELSE isBotFrom(event, i + 1)

isBot(event) == isBotFrom(event, 1)

\* json.Marshal of a TimeBombMessage: the members in field order under
\* their json tags.
Marshal(message) ==
    <<<<"channel", message.Channel>>, <<"ts", message.Timestamp>>,
      <<"ttl", message.TTL>>>>

\* TimeBombMessage with the default TTL written into it.
TimeBombMessageFixedTTL(event, cfg) ==
    [Channel |-> event.Event.Item.Channel,
     Timestamp |-> event.Event.Item.TS,
     TTL |-> DefaultTTL]

TimeBombMessage(event, cfg) ==
    [Channel |-> event.Event.Item.Channel,
     Timestamp |-> event.Event.Item.TS,
     TTL |-> cfg.TimeBombTTLSeconds]

\* DeleteMessage called with its two arguments exchanged.
DeleteCallSwapped(event) ==
    [api |-> "DeleteMessage",
     channel |-> event.Event.Item.TS,
     timestamp |-> event.Event.Item.Channel,
     message |-> <<>>]

DeleteCall(event) ==
    [api |-> "DeleteMessage",
     channel |-> event.Event.Item.Channel,
     timestamp |-> event.Event.Item.TS,
     message |-> <<>>]

PublishCall(event, cfg) ==
    [api |-> "Publish",
     channel |-> cfg.TimeBombRedisChannel,
     timestamp |-> "",
     message |-> Marshal(TimeBombMessage(event, cfg))]

(* ------------------------------- actions ------------------------------- *)

Init ==
    /\ \E token \in TokenEnv, channel \in TimeBombChannelEnv, ttl \in TTLEnv :
          config = [SlackBotToken |-> getEnv(token, ""),
                    TimeBombRedisChannel |-> getEnv(channel, DefaultTimeBombChannel),
                    TimeBombTTLSeconds |-> getEnvInt(ttl, DefaultTTL)]
    /\ \E level \in LogLevelEnv :
          currentLogLevel = parseLogLevel(getEnv(level, "INFO"))
    /\ loop = "Starting"
    /\ ctxDone = FALSE
    /\ chClosed = FALSE
    /\ pc = "idle"
    /\ payload = NoPayload
    /\ calls = <<>>
    /\ logs = <<>>
    /\ mainLogs = <<>>
    /\ inbound = "empty"
    /\ lastOutcome = "none"
    /\ seen = {}

\* main going on after it has reported the missing token.
StartupTokenNotFatal ==
    /\ loop = "Starting"
    /\ \E pingOk \in BOOLEAN :
          IF ~pingOk
          THEN /\ loop' = "Aborted"
               /\ mainLogs' = Append(mainLogs, logError("Failed to connect to Redis"))
          ELSE /\ loop' = "Running"
               /\ mainLogs' = mainLogs \o <<logInfo("Connected to Redis"),
                                     logInfo("Subscribed to Redis channel"),
                                     logInfo("Waiting for reaction events...")>>
    /\ UNCHANGED <<config, currentLogLevel, ctxDone, chClosed, pc, payload,
                   calls, logs, inbound, lastOutcome, seen>>

\* main, from the token check to the entry of the receive loop.
Startup ==
    /\ loop = "Starting"
    /\ \E pingOk \in BOOLEAN :
          IF config.SlackBotToken = ""
          THEN /\ loop' = "Aborted"
               /\ mainLogs' = Append(mainLogs, logError("SLACK_BOT_TOKEN environment variable is required"))
          ELSE IF ~pingOk
          THEN /\ loop' = "Aborted"
               /\ mainLogs' = Append(mainLogs, logError("Failed to connect to Redis"))
          ELSE /\ loop' = "Running"
               /\ mainLogs' = mainLogs \o <<logInfo("Connected to Redis"),
                                     logInfo("Subscribed to Redis channel"),
                                     logInfo("Waiting for reaction events...")>>
    /\ UNCHANGED <<config, currentLogLevel, ctxDone, chClosed, pc, payload,
                   calls, logs, inbound,
                   lastOutcome, seen>>

\* The signal goroutine: a signal arrives, it logs and cancels the context.
Signal ==
    /\ loop = "Running"
    /\ ~ctxDone
    /\ ctxDone' = TRUE
    /\ mainLogs' = Append(mainLogs, logInfo("Shutting down..."))
    /\ UNCHANGED <<config, currentLogLevel, loop, chClosed, pc, payload,
                   calls, logs, inbound,
                   lastOutcome, seen>>

\* The subscription's channel is closed under the loop.
CloseChannel ==
    /\ loop = "Running"
    /\ ~chClosed
    /\ chClosed' = TRUE
    /\ UNCHANGED <<config, currentLogLevel, loop, ctxDone, pc, payload,
                   calls, logs, mainLogs, inbound,
                   lastOutcome, seen>>

\* The process ended as soon as the context is cancelled, wherever
\* handleMessage is.
ExitCancelledAnytime ==
    /\ loop = "Running"
    /\ ctxDone
    /\ loop' = "Stopped"
    /\ mainLogs' = Append(mainLogs, logInfo("Context cancelled, exiting"))
    /\ UNCHANGED <<config, currentLogLevel, ctxDone, chClosed, pc, payload,
                   calls, logs, inbound, lastOutcome, seen>>

\* The loop throwing away the message on the channel when it leaves.
ExitCancelledDrains ==
    /\ loop = "Running"
    /\ pc = "idle"
    /\ ctxDone
    /\ loop' = "Stopped"
    /\ inbound' = "empty"
    /\ mainLogs' = Append(mainLogs, logInfo("Context cancelled, exiting"))
    /\ UNCHANGED <<config, currentLogLevel, ctxDone, chClosed, pc, payload,
                   calls, logs, lastOutcome, seen>>

\* The context looked at only when the channel has no message to hand out.
ExitCancelledWhenChannelEmpty ==
    /\ loop = "Running"
    /\ pc = "idle"
    /\ ctxDone
    /\ inbound = "empty"
    /\ loop' = "Stopped"
    /\ mainLogs' = Append(mainLogs, logInfo("Context cancelled, exiting"))
    /\ UNCHANGED <<config, currentLogLevel, ctxDone, chClosed, pc, payload,
                   calls, logs, inbound, lastOutcome, seen>>

\* select: case <-ctx.Done().
ExitCancelled ==
    /\ loop = "Running"
    /\ pc = "idle"
    /\ ctxDone
    /\ loop' = "Stopped"
    /\ mainLogs' = Append(mainLogs, logInfo("Context cancelled, exiting"))
    /\ UNCHANGED <<config, currentLogLevel, ctxDone, chClosed, pc, payload,
                   calls, logs, inbound,
                   lastOutcome, seen>>

\* The loop leaving as soon as the channel has nothing to hand out.
ExitChannelClosedOnEmpty ==
    /\ loop = "Running"
    /\ pc = "idle"
    /\ inbound = "empty"
    /\ loop' = "Stopped"
    /\ mainLogs' = Append(mainLogs, logInfo("Channel closed, exiting"))
    /\ UNCHANGED <<config, currentLogLevel, ctxDone, chClosed, pc, payload,
                   calls, logs, inbound, lastOutcome, seen>>

\* select: case msg, ok := <-ch with ok false.
ExitChannelClosed ==
    /\ loop = "Running"
    /\ pc = "idle"
    /\ chClosed
    /\ inbound = "empty"
    /\ loop' = "Stopped"
    /\ mainLogs' = Append(mainLogs, logInfo("Channel closed, exiting"))
    /\ UNCHANGED <<config, currentLogLevel, ctxDone, chClosed, pc, payload,
                   calls, logs, inbound,
                   lastOutcome, seen>>

\* The event-type test with its comparison inverted.
SkipNonReactionInverted(event) == event.Event.Type = "reaction_added"

\* The item-type test with its comparison inverted.
SkipNonMessageInverted(event) == event.Event.Item.Type = "message"

\* The wastebasket test made without regard to letter case.
IsWastebasketFold(event) == event.Event.Reaction \in {"wastebasket", "Wastebasket"}

\* The conditions handleMessage tests, in the order it tests them.
SkipNonReaction(event) == event.Event.Type # "reaction_added"

SkipNonMessage(event) == event.Event.Item.Type # "message"

IsWastebasket(event) == event.Event.Reaction = "wastebasket"

IsBomb(event) == event.Event.Reaction = "bomb"

\* handleMessage with the bot test moved in front of the two type tests.
handleMessageBotFirst(p, cfg) ==
    LET event == Unmarshal(p) IN
    IF UnmarshalError(p)
    THEN <<"return", <<>>, <<logError("Error parsing payload")>> >>
    ELSE IF isBot(event)
    THEN <<"return", <<>>, <<logDebug("Skipping bot user reaction")>> >>
    ELSE IF SkipNonReaction(event)
    THEN <<"return", <<>>, <<logDebug("Skipping non-reaction event")>> >>
    ELSE IF SkipNonMessage(event)
    THEN <<"return", <<>>, <<logDebug("Skipping non-message item")>> >>
    ELSE IF IsWastebasket(event)
    THEN <<"deleting", <<DeleteCall(event)>>, <<logInfo("Deleting message")>> >>
    ELSE IF IsBomb(event)
    THEN <<"publishing", <<PublishCall(event, cfg)>>, <<>> >>
    ELSE <<"return", <<>>, <<logDebug("Skipping unsupported reaction")>> >>

\* What handleMessage does with the payload up to its return or, when it
\* calls out, up to the call: the next value of <<pc, calls, logs>>.
handleMessage(p, cfg) ==
    LET event == Unmarshal(p) IN
    IF UnmarshalError(p)
    THEN <<"return", <<>>, <<logError("Error parsing payload")>> >>
    ELSE IF SkipNonReaction(event)
    THEN <<"return", <<>>, <<logDebug("Skipping non-reaction event")>> >>
    ELSE IF SkipNonMessage(event)
    THEN <<"return", <<>>, <<logDebug("Skipping non-message item")>> >>
    ELSE IF isBot(event)
    THEN <<"return", <<>>, <<logDebug("Skipping bot user reaction")>> >>
    ELSE IF IsWastebasket(event)
    THEN <<"deleting", <<DeleteCall(event)>>, <<logInfo("Deleting message")>> >>
    ELSE IF IsBomb(event)
    THEN <<"publishing", <<PublishCall(event, cfg)>>, <<>> >>
    ELSE <<"return", <<>>, <<logDebug("Skipping unsupported reaction")>> >>

\* The receipts recorded so far together with that of payload p, decided
\* as d, when p is one of the payloads T whose receipts are recorded.
Receipt(T, p, d) ==
    IF p \in T
    THEN seen \cup {[payload |-> p, decision |-> d,
                     again |-> \E e \in seen : e.payload = p]}
    ELSE seen

\* select: case msg, ok := <-ch with ok true; handleMessage(msg.Payload, ...),
\* for a message whose payload is one of S.  select chooses among its ready
\* cases, so a message can be taken although the context is already
\* cancelled; a closed channel still hands out the message it holds.
HandleMessageFrom(S, T) ==
    /\ loop = "Running"
    /\ pc = "idle"
    /\ inbound # "empty"
    /\ \E p \in S :
          /\ payload' = p
          /\ pc' = handleMessage(p, config)[1]
          /\ calls' = handleMessage(p, config)[2]
          /\ logs' = handleMessage(p, config)[3]
          /\ seen' = Receipt(T, p, handleMessage(p, config))
    /\ inbound' = "empty"
    /\ lastOutcome' = "none"
    /\ UNCHANGED <<config, currentLogLevel, loop, ctxDone, chClosed, mainLogs>>

\* handleMessage started for a message while an earlier invocation is
\* still waiting for its call to return.
HandleMessageConcurrent ==
    /\ loop = "Running"
    /\ pc \in {"idle", "deleting", "publishing"}
    /\ inbound # "empty"
    /\ \E p \in Payloads :
          /\ payload' = p
          /\ pc' = handleMessage(p, config)[1]
          /\ calls' = handleMessage(p, config)[2]
          /\ logs' = handleMessage(p, config)[3]
    /\ inbound' = "empty"
    /\ lastOutcome' = "none"
    /\ UNCHANGED <<config, currentLogLevel, loop, ctxDone, chClosed, mainLogs, seen>>

HandleMessage == HandleMessageFrom(Payloads, {})

\* deleteMessage calling DeleteMessage again when it has failed.
DeleteMessageReturnRetry ==
    /\ pc = "deleting"
    /\ \E err \in BOOLEAN :
          IF err
          THEN /\ logs' = Append(logs, logError("Error deleting message"))
               /\ calls' = Append(calls, calls[Len(calls)])
               /\ pc' = "deleting"
          ELSE /\ logs' = Append(logs, logInfo("Successfully deleted message"))
               /\ calls' = calls
               /\ pc' = "return"
    /\ UNCHANGED <<config, currentLogLevel, loop, ctxDone, chClosed, payload,
                   mainLogs, inbound,
                   lastOutcome, seen>>

\* deleteMessage, from the return of slackClient.DeleteMessage.
DeleteMessageReturn ==
    /\ pc = "deleting"
    /\ \E err \in BOOLEAN :
          logs' = Append(logs, IF err THEN logError("Error deleting message")
                                      ELSE logInfo("Successfully deleted message"))
    /\ pc' = "return"
    /\ UNCHANGED <<config, currentLogLevel, loop, ctxDone, chClosed, payload,
                   calls, mainLogs, inbound,
                   lastOutcome, seen>>

\* publishToTimeBomb ending the process when the publish has failed.
PublishReturnFatal ==
    /\ pc = "publishing"
    /\ \E err \in BOOLEAN :
          /\ logs' = Append(logs, IF err THEN logError("Error publishing to TimeBomb")
                                         ELSE logInfo("Published message to TimeBomb"))
          /\ loop' = IF err THEN "Stopped" ELSE loop
    /\ pc' = "return"
    /\ UNCHANGED <<config, currentLogLevel, ctxDone, chClosed, payload,
                   calls, mainLogs, inbound, lastOutcome, seen>>

\* publishToTimeBomb putting the payload back on the channel when the
\* publish has failed.
PublishReturnRequeue ==
    /\ pc = "publishing"
    /\ \E err \in BOOLEAN :
          /\ logs' = Append(logs, IF err THEN logError("Error publishing to TimeBomb")
                                         ELSE logInfo("Published message to TimeBomb"))
          /\ inbound' = IF err /\ inbound = "empty"
                        THEN (IF ctxDone THEN "late" ELSE "early")
                        ELSE inbound
    /\ pc' = "return"
    /\ UNCHANGED <<config, currentLogLevel, loop, ctxDone, chClosed, payload,
                   calls, mainLogs, lastOutcome, seen>>

\* publishToTimeBomb, from the return of redisClient.Publish.
PublishReturn ==
    /\ pc = "publishing"
    /\ \E err \in BOOLEAN :
          logs' = Append(logs, IF err THEN logError("Error publishing to TimeBomb")
                                      ELSE logInfo("Published message to TimeBomb"))
    /\ pc' = "return"
    /\ UNCHANGED <<config, currentLogLevel, loop, ctxDone, chClosed, payload,
                   calls, mainLogs, inbound,
                   lastOutcome, seen>>

\* How an invocation of handleMessage ended: the error it logged last, or "ok".
Outcome(lines) ==
    IF lines[Len(lines)].level = LogLevelError THEN lines[Len(lines)].msg ELSE "ok"

\* handleMessage returns to the loop; its locals are gone.
Return ==
    /\ pc = "return"
    /\ pc' = "idle"
    /\ payload' = NoPayload
    /\ calls' = <<>>
    /\ logs' = <<>>
    /\ lastOutcome' = Outcome(logs)
    /\ UNCHANGED <<config, currentLogLevel, loop, ctxDone, chClosed, mainLogs,
                   inbound, seen>>

\* The subscription puts a message on the channel.
Deliver ==
    /\ loop = "Running"
    /\ ~chClosed
    /\ inbound = "empty"
    /\ inbound' = IF ctxDone THEN "late" ELSE "early"
    /\ UNCHANGED <<config, currentLogLevel, loop, ctxDone, chClosed, pc, payload,
                   calls, logs, mainLogs, lastOutcome, seen>>

Next ==
    \/ Startup
    \/ Deliver
    \/ Signal
    \/ CloseChannel
    \/ ExitCancelled
    \/ ExitChannelClosed
    \/ HandleMessage
    \/ DeleteMessageReturn
    \/ PublishReturn
    \/ Return

Spec == Init /\ [][Next]_vars

\* One payload for each way through handleMessage.
LiveBase ==
    [syntax |-> TRUE, type |-> "reaction_added", user |-> "U1",
     reaction |-> "wastebasket",
     item |-> [present |-> TRUE, type |-> "message", channel |-> "C1", ts |-> "100.1"],
     authorizations |->
        [present |-> TRUE, list |-> <<[user_id |-> "U1", is_bot |-> FALSE]>>]]

LivePayloads ==
    {Malformed,
     LiveBase,
     [LiveBase EXCEPT !.reaction = "bomb"],
     [LiveBase EXCEPT !.reaction = "eyes"],
     [LiveBase EXCEPT !.type = "reaction_removed"],
     [LiveBase EXCEPT !.item.type = "file"],
     [LiveBase EXCEPT !.authorizations.list = <<[user_id |-> "U1", is_bot |-> TRUE]>>]}

LiveHandleMessage == HandleMessageFrom(LivePayloads, {})

LiveNext ==
    \/ Startup
    \/ Deliver
    \/ Signal
    \/ CloseChannel
    \/ ExitCancelled
    \/ ExitChannelClosed
    \/ LiveHandleMessage
    \/ DeleteMessageReturn
    \/ PublishReturn
    \/ Return

\* The program under fair scheduling.  A call that has been issued returns
\* and handleMessage runs on to its return (weak fairness).  select picks
\* among its ready cases at random, so a case that is ready again and again
\* is taken in the end (strong fairness of the ctx.Done case).
LiveSpec ==
    /\ Init
    /\ [][LiveNext]_vars
    /\ WF_vars(DeleteMessageReturn)
    /\ WF_vars(PublishReturn)
    /\ WF_vars(Return)
    /\ SF_vars(ExitCancelled)

\* The payloads whose receipts are recorded.
ReplayPayloads ==
    {Malformed,
     LiveBase,
     [LiveBase EXCEPT !.reaction = "bomb"],
     [LiveBase EXCEPT !.authorizations.list = <<[user_id |-> "U1", is_bot |-> TRUE]>>]}

\* handleMessage leaving out a payload it has issued a call for before.
ReplayHandleMessageDedup ==
    /\ loop = "Running"
    /\ pc = "idle"
    /\ inbound # "empty"
    /\ \E p \in LivePayloads :
          LET d == IF \E e \in seen : e.payload = p /\ e.decision[2] # <<>>
                   THEN <<"return", <<>>, <<logDebug("Skipping duplicate event")>> >>
                   ELSE handleMessage(p, config)
          IN /\ payload' = p
             /\ pc' = d[1]
             /\ calls' = d[2]
             /\ logs' = d[3]
             /\ seen' = Receipt(ReplayPayloads, p, d)
    /\ inbound' = "empty"
    /\ lastOutcome' = "none"
    /\ UNCHANGED <<config, currentLogLevel, loop, ctxDone, chClosed, mainLogs>>

ReplayHandleMessage == HandleMessageFrom(LivePayloads, ReplayPayloads)

ReplayNext ==
    \/ Startup
    \/ Deliver
    \/ Signal
    \/ CloseChannel
    \/ ExitCancelled
    \/ ExitChannelClosed
    \/ ReplayHandleMessage
    \/ DeleteMessageReturn
    \/ PublishReturn
    \/ Return

\* The program with the receipts of ReplayPayloads recorded, the other
\* payloads of LivePayloads coming in before and between them.
ReplaySpec == Init /\ [][ReplayNext]_vars

(* ------------------------------- claims -------------------------------- *)

\* The payload in hand, as the claims describe it: by the members of the
\* document, an absent member reading as the empty text.
Text(v) == IF v = Absent THEN "" ELSE v

Decodable == payload.syntax /\ payload.type # NotText

\* Some authorization record names the event's user and flags it as a bot.
HasBotRecord ==
    \E i \in 1..Len(payload.authorizations.list) :
        /\ payload.authorizations.list[i].user_id = payload.user
        /\ payload.authorizations.list[i].is_bot

\* A reaction_added event on a message item from a non-automated originator.
Eligible ==
    /\ Decodable
    /\ payload.type = "reaction_added"
    /\ payload.item.type = "message"
    /\ ~HasBotRecord

\* handleMessage is active / has finished with the payload in hand.
Handling == pc # "idle"
Handled == pc = "return"

Deletes == SelectSeq(calls, LAMBDA c : c.api = "DeleteMessage")
Publishes == SelectSeq(calls, LAMBDA c : c.api = "Publish")

\* C1: for the payload being handled, whatever it is and whatever was
\* handled before it, the delete calls and the publishes issued for it
\* number at most one together.
C1_AtMostOneSideEffect == Len(Deletes) + Len(Publishes) <= 1

C1_Witness ==
    /\ Handled
    /\ Len(Deletes) + Len(Publishes) = 1
    /\ logs[Len(logs)] = logError("Error deleting message")

\* C2: an eligible payload with reaction "wastebasket" gets exactly one
\* delete call, with the payload's own item channel and item ts, and no
\* publish.
C2_WastebasketDeletes ==
    (Handled /\ Eligible /\ payload.reaction = "wastebasket") =>
        /\ Len(Deletes) = 1
        /\ Deletes[1].channel = Text(payload.item.channel)
        /\ Deletes[1].timestamp = Text(payload.item.ts)
        /\ Len(Publishes) = 0

C2_Witness ==
    /\ Handled /\ Eligible /\ payload.reaction = "wastebasket"
    /\ payload.item.channel = "C1" /\ payload.item.ts = "100.1"
    /\ Len(Deletes) = 1

\* C3: an eligible payload with reaction "bomb" gets no delete call and
\* exactly one publish, to the configured TimeBomb channel, of a message
\* with the payload's item channel and item ts and the configured TTL; and
\* the ttl of every published message is the configured TTL.
C3_BombPublishes ==
    /\ (Handled /\ Eligible /\ payload.reaction = "bomb") =>
          /\ Len(Deletes) = 0
          /\ Len(Publishes) = 1
          /\ Publishes[1].channel = config.TimeBombRedisChannel
          /\ Publishes[1].message =
                <<<<"channel", Text(payload.item.channel)>>,
                  <<"ts", Text(payload.item.ts)>>,
                  <<"ttl", config.TimeBombTTLSeconds>>>>
    /\ \A i \in 1..Len(Publishes) :
          Publishes[i].message[3] = <<"ttl", config.TimeBombTTLSeconds>>

C3_Witness ==
    /\ Handled /\ Eligible /\ payload.reaction = "bomb"
    /\ config.TimeBombTTLSeconds = OtherTTL
    /\ config.TimeBombRedisChannel = "custom-timebomb"
    /\ Len(Publishes) = 1

\* C4: a payload with an authorization record that names the event's user
\* as a bot gets no delete call and no publish, whatever its reaction.
C4_BotIgnored ==
    (Handling /\ payload.syntax /\ HasBotRecord) => (calls = <<>> /\ Handled)

C4_Witness ==
    /\ Handled /\ Decodable /\ HasBotRecord
    /\ payload.type = "reaction_added"
    /\ payload.item.type = "message"
    /\ payload.reaction = "bomb"
    /\ Len(payload.authorizations.list) = 2
    /\ ~payload.authorizations.list[1].is_bot

\* C5: a reaction_added event on a message item is skipped as a bot's
\* exactly when some authorization record names the event's user with
\* is_bot true; otherwise "wastebasket" gets the delete and "bomb" the
\* publish.
C5_AutomatedIffBotRecord ==
    (Handled /\ Decodable /\ payload.type = "reaction_added"
             /\ payload.item.type = "message") =>
        /\ HasBotRecord <=> (logs = <<logDebug("Skipping bot user reaction")>>)
        /\ (~HasBotRecord /\ payload.reaction = "wastebasket") => Len(Deletes) = 1
        /\ (~HasBotRecord /\ payload.reaction = "bomb") => Len(Publishes) = 1

C5_Witness ==
    /\ Handled /\ Eligible /\ payload.reaction = "wastebasket"
    /\ payload.authorizations.list =
          <<[user_id |-> "U2", is_bot |-> TRUE], [user_id |-> "U1", is_bot |-> FALSE]>>
    /\ payload.user = "U1"
    /\ Len(Deletes) = 1

\* C6: a decodable payload whose event type is not "reaction_added" gets
\* no delete call and no publish, whatever its item, reaction, user and
\* authorizations.
C6_NonReactionIgnored ==
    (Handling /\ Decodable /\ payload.type # "reaction_added") =>
        (Len(Deletes) = 0 /\ Len(Publishes) = 0 /\ Handled)

C6_Witness ==
    /\ Handled /\ Decodable
    /\ payload.type = "reaction_removed"
    /\ payload.item.type = "message"
    /\ payload.reaction = "wastebasket"
    /\ ~HasBotRecord
    /\ payload.item.channel = "C1" /\ payload.item.ts = "100.1"

\* C7: a decodable payload whose item type is not "message" gets no delete
\* call and no publish, also when it is a reaction_added event with
\* reaction "wastebasket" or "bomb".
C7_NonMessageIgnored ==
    (Handling /\ Decodable /\ payload.item.type # "message") =>
        (Len(Deletes) = 0 /\ Len(Publishes) = 0 /\ Handled)

C7_Witness ==
    /\ Handled /\ Decodable
    /\ payload.type = "reaction_added"
    /\ payload.item.type = "file"
    /\ payload.reaction \in {"wastebasket", "bomb"}
    /\ ~HasBotRecord

\* C8: an eligible payload whose reaction is neither "wastebasket" nor
\* "bomb" gets no delete call and no publish, and the reason recorded for
\* it is the unsupported reaction.
C8_UnsupportedReactionIgnored ==
    (Handling /\ Eligible /\ payload.reaction \notin {"wastebasket", "bomb"}) =>
        /\ Len(Deletes) = 0 /\ Len(Publishes) = 0 /\ Handled
        /\ logs = <<logDebug("Skipping unsupported reaction")>>

C8_Witness ==
    /\ Handled /\ Eligible
    /\ payload.reaction = "Wastebasket"
    /\ logs = <<logDebug("Skipping unsupported reaction")>>

\* C9: the rules apply in the order event type, item type, bot, wastebasket,
\* bomb, otherwise, and the first that matches decides: the reason recorded
\* is that of the earliest matching rule, and a delete call or a publish is
\* issued only when the first three rules all failed to match.
C9_FirstMatchingRuleWins ==
    (Handling /\ Decodable) =>
        /\ payload.type # "reaction_added" =>
              logs = <<logDebug("Skipping non-reaction event")>>
        /\ (payload.type = "reaction_added" /\ payload.item.type # "message") =>
              logs = <<logDebug("Skipping non-message item")>>
        /\ (payload.type = "reaction_added" /\ payload.item.type = "message"
               /\ HasBotRecord) =>
              logs = <<logDebug("Skipping bot user reaction")>>
        /\ calls # <<>> => Eligible
        /\ (Eligible /\ payload.reaction = "wastebasket") => Len(Publishes) = 0
        /\ (Eligible /\ payload.reaction = "bomb") => Len(Deletes) = 0

C9_Witness ==
    /\ Handled /\ Decodable
    /\ payload.type # "reaction_added"
    /\ payload.item.type # "message"
    /\ HasBotRecord
    /\ logs = <<logDebug("Skipping non-reaction event")>>

\* C10: a payload that is no syntactically valid document gets no delete
\* call and no publish and exactly one log line, the parse error, which is
\* printed at every verbosity; the loop is still running.
C10_MalformedDropped ==
    (Handling /\ ~payload.syntax) =>
        /\ Len(Deletes) = 0 /\ Len(Publishes) = 0 /\ Handled
        /\ logs = <<logError("Error parsing payload")>>
        /\ Emitted = logs
        /\ loop = "Running"

C10_Witness ==
    /\ Handled /\ ~payload.syntax
    /\ currentLogLevel = LogLevelError
    /\ Len(Emitted) = 1

Expected(p, cfg) ==
    IF ~p.syntax \/ p.type = NotText
    THEN <<"return", <<>>, <<logError("Error parsing payload")>> >>
    ELSE IF p.type # "reaction_added"
    THEN <<"return", <<>>, <<logDebug("Skipping non-reaction event")>> >>
    ELSE IF p.item.type # "message"
    THEN <<"return", <<>>, <<logDebug("Skipping non-message item")>> >>
    ELSE IF \E i \in 1..Len(p.authorizations.list) :
                /\ p.authorizations.list[i].user_id = p.user
                /\ p.authorizations.list[i].is_bot
    THEN <<"return", <<>>, <<logDebug("Skipping bot user reaction")>> >>
    ELSE IF p.reaction = "wastebasket"
    THEN <<"deleting",
           <<[api |-> "DeleteMessage", channel |-> Text(p.item.channel),
              timestamp |-> Text(p.item.ts), message |-> <<>>]>>,
           <<logInfo("Deleting message")>> >>
    ELSE IF p.reaction = "bomb"
    THEN <<"publishing",
           <<[api |-> "Publish", channel |-> cfg.TimeBombRedisChannel,
              timestamp |-> "",
              message |-> <<<<"channel", Text(p.item.channel)>>,
                            <<"ts", Text(p.item.ts)>>,
                            <<"ttl", cfg.TimeBombTTLSeconds>>>>]>>,
           <<>> >>
    ELSE <<"return", <<>>, <<logDebug("Skipping unsupported reaction")>> >>

\* The invocation that returned last ended in an error.
LastFailed == lastOutcome \notin {"none", "ok"}

\* The invocation in hand has logged an error last.
Failed == logs # <<>> /\ logs[Len(logs)].level = LogLevelError

\* C13: no error of one payload stops the loop: when a parse error, a
\* failed delete call or a failed publish is logged the loop is running,
\* it stays running when handleMessage returns, and the payload taken next
\* is handled as the decision procedure says, as after a success.
C13_ErrorsAbsorbed ==
    [][ /\ (pc' # "idle" /\ Failed') => loop' = "Running"
        /\ (pc = "return" /\ Failed /\ pc' = "idle") =>
              (loop' = "Running" /\ LastFailed')
        /\ (pc = "idle" /\ LastFailed /\ pc' # "idle") =>
              <<pc', calls', logs'>> = Expected(payload', config) ]_vars

C13_Witness ==
    /\ pc = "idle" /\ loop = "Running"
    /\ lastOutcome = "Error publishing to TimeBomb"
    /\ inbound # "empty"
    /\ ~ctxDone /\ ~chClosed

\* C14: a failed delete call or publish is not made again and its payload is
\* not put back: the return of a call and the return of handleMessage leave
\* the calls issued and the inbound channel as they are, and a call is only
\* ever issued on the receipt of a payload, once, for that payload's item.
C14_NoRetryNoRequeue ==
    [][ /\ (pc \in {"deleting", "publishing"} /\ pc' # pc) =>
              /\ pc' = "return"
              /\ Len(calls) = 1 /\ calls' = calls
              /\ inbound' = inbound
        /\ (pc = "return" /\ pc' # pc) =>
              /\ pc' = "idle"
              /\ calls' = <<>>
              /\ inbound' = inbound
        /\ (calls' # calls /\ calls' # <<>>) =>
              /\ pc = "idle" /\ inbound # "empty" /\ inbound' = "empty"
              /\ Len(calls') = 1
              /\ calls'[1].api = "DeleteMessage" =>
                    /\ calls'[1].channel = Text(payload'.item.channel)
                    /\ calls'[1].timestamp = Text(payload'.item.ts)
              /\ calls'[1].api = "Publish" =>
                    /\ calls'[1].message[1] = <<"channel", Text(payload'.item.channel)>>
                    /\ calls'[1].message[2] = <<"ts", Text(payload'.item.ts)>> ]_vars

C14_Witness ==
    /\ pc = "idle"
    /\ lastOutcome \in {"Error deleting message", "Error publishing to TimeBomb"}
    /\ inbound = "empty"
    /\ loop = "Running"

\* C15: the loop leaves Running only from select, to Stopped, on a cancelled
\* context or on a closed and drained channel, and says which; once Stopped
\* it stays Stopped, takes no payload and issues no call, also with a
\* payload left on the channel.
C15_StopOnlyOnCancelOrClose ==
    [][ /\ (loop = "Running" /\ loop' # "Running") =>
              /\ loop' = "Stopped"
              /\ pc = "idle" /\ pc' = "idle"
              /\ inbound' = inbound
              /\ \/ ctxDone /\ mainLogs' = Append(mainLogs, logInfo("Context cancelled, exiting"))
                 \/ chClosed /\ inbound = "empty"
                      /\ mainLogs' = Append(mainLogs, logInfo("Channel closed, exiting"))
        /\ loop = "Stopped" =>
              /\ loop' = "Stopped"
              /\ pc' = "idle" /\ payload' = payload /\ calls' = <<>>
              /\ inbound' = inbound ]_vars

C15_Witness ==
    /\ loop = "Stopped"
    /\ inbound # "empty"
    /\ pc = "idle" /\ calls = <<>>

\* C16: once cancel() has been called the loop reaches Stopped, provided
\* every call in flight returns and the loop is scheduled fairly, also with
\* payloads coming in without end.
C16_CancelLeadsToStopped == ctxDone ~> (loop = "Stopped")

C16_Witness ==
    /\ loop = "Stopped"
    /\ ctxDone
    /\ mainLogs[Len(mainLogs)] = logInfo("Context cancelled, exiting")
    /\ inbound = "late"

\* main has logged that Redis did not answer the ping.
PingFailed ==
    \E i \in 1..Len(mainLogs) : mainLogs[i] = logError("Failed to connect to Redis")

\* C17: with an empty bot token, or after a failed ping, the loop is never
\* entered: the process is starting or aborted, no payload has been taken
\* or decoded and no call has been issued.
C17_AbortBeforeLoop ==
    (config.SlackBotToken = "" \/ PingFailed) =>
        /\ loop \in {"Starting", "Aborted"}
        /\ loop = "Starting" => mainLogs = <<>>
        /\ loop = "Aborted" => mainLogs[Len(mainLogs)].level = LogLevelError
        /\ pc = "idle" /\ payload = NoPayload
        /\ calls = <<>> /\ logs = <<>>
        /\ inbound = "empty" /\ lastOutcome = "none"

C17_Witness ==
    /\ loop = "Aborted"
    /\ config.SlackBotToken # ""
    /\ PingFailed

\* The lines that report how a call in flight ended.
ResultLines ==
    IF pc = "deleting"
    THEN {logError("Error deleting message"), logInfo("Successfully deleted message")}
    ELSE {logError("Error publishing to TimeBomb"), logInfo("Published message to TimeBomb")}

\* C18: a cancellation raised while a delete call or a publish is in flight
\* does not abort it: the loop stays Running, the call stays issued, and
\* the next step of handleMessage is the call's own return, reported in the
\* log; the loop goes to Stopped only from select.
C18_CancelBetweenEvents ==
    [][ /\ (pc \in {"deleting", "publishing"} /\ (ctxDone \/ ctxDone')) =>
              /\ loop' = "Running"
              /\ calls' = calls /\ Len(calls) = 1
              /\ payload' = payload
              /\ \/ pc' = pc /\ logs' = logs
                 \/ /\ pc' = "return"
                    /\ Len(logs') = Len(logs) + 1
                    /\ logs'[Len(logs')] \in ResultLines
        /\ (ctxDone /\ loop = "Running" /\ loop' = "Stopped") => pc = "idle" ]_vars

C18_Witness ==
    /\ Handled /\ ctxDone
    /\ loop = "Running"
    /\ Len(Deletes) = 1
    /\ logs[Len(logs)] = logInfo("Successfully deleted message")

\* main has logged that it leaves the loop.
LoopLeft ==
    \E i \in 1..Len(mainLogs) :
        mainLogs[i] \in {logInfo("Context cancelled, exiting"),
                        logInfo("Channel closed, exiting")}

\* C19 as stated: a payload that became available after the cancellation is
\* never taken by the loop.
C19_Original ==
    [][ (pc = "idle" /\ pc' # "idle") => inbound # "late" ]_vars

\* C19, amended: select decides the race.  With the context cancelled and
\* no payload available nothing is taken; with both ready either case can
\* be taken, so a payload that became available after the cancellation can
\* still be handled, but only while the loop is Running and has not taken
\* the ctx.Done case; when it takes that case it goes to Stopped and leaves
\* the payload on the channel, and from Stopped nothing is taken.
C19_SelectDecidesRace ==
    [][ /\ (ctxDone /\ pc = "idle" /\ pc' # "idle") =>
              /\ loop = "Running" /\ ~LoopLeft
              /\ inbound # "empty" /\ inbound' = "empty"
        /\ (ctxDone /\ pc = "idle" /\ inbound = "empty") => pc' = "idle"
        /\ (ctxDone /\ loop = "Running" /\ loop' # "Running") =>
              /\ loop' = "Stopped" /\ LoopLeft'
              /\ inbound' = inbound
              /\ pc' = "idle" /\ payload' = NoPayload /\ calls' = <<>>
        /\ (loop = "Stopped") => (pc' = "idle" /\ inbound' = inbound) ]_vars

C19_Witness ==
    /\ loop = "Running" /\ pc = "idle"
    /\ ctxDone
    /\ inbound = "late"
    /\ ~chClosed

C21_SameDecisionOnEveryReceipt ==
    [][ /\ config' = config
        /\ currentLogLevel' = currentLogLevel
        /\ (pc = "idle" /\ pc' # "idle") =>
              \A e \in seen :
                  e.payload = payload' => e.decision = <<pc', calls', logs'>> ]_vars

C21_Witness ==
    /\ pc = "publishing"
    /\ Len(Publishes) = 1
    /\ \E e \in seen : e.payload = payload /\ e.again /\ e.decision[2] = calls
    /\ \E e \in seen : e.payload # payload /\ e.again /\ Len(e.decision[2]) = 1
    /\ lastOutcome = "none"

\* The payload in hand is one the decision procedure ignores: a decodable
\* one that is not an eligible "wastebasket" or "bomb".
Ignored == Decodable /\ ~(Eligible /\ payload.reaction \in {"wastebasket", "bomb"})

\* C22: an ignored payload logs one line, which is printed at verbosity
\* DEBUG and not at INFO or ERROR; a parse error, a failed delete call and a
\* failed publish print their error line at every verbosity; at verbosity
\* ERROR no line below error level is printed for any payload.
C22_LogFollowsVerbosity ==
    /\ (Handled /\ Ignored) =>
          /\ Len(logs) = 1
          /\ logs[1].level = LogLevelDebug
          /\ Emitted = IF currentLogLevel = LogLevelDebug THEN logs ELSE <<>>
    /\ (Handled /\ ~Decodable) =>
          Emitted = <<logError("Error parsing payload")>>
    /\ (Handled /\ calls # <<>> /\ Failed) =>
          /\ Emitted # <<>>
          /\ Emitted[Len(Emitted)] = logs[Len(logs)]
          /\ Emitted[Len(Emitted)].msg \in
                {"Error deleting message", "Error publishing to TimeBomb"}
    /\ currentLogLevel = LogLevelError =>
          \A i \in 1..Len(Emitted) : Emitted[i].level = LogLevelError

C22_Witness ==
    /\ Handled
    /\ currentLogLevel = LogLevelError
    /\ Len(Deletes) = 1
    /\ Len(logs) = 2
    /\ Emitted = <<logError("Error deleting message")>>

\* C23 as stated: every delete call and every published deferred-deletion
\* request carries a non-empty channel and a non-empty timestamp, so a
\* reaction_added event on a message item without a channel or without a
\* ts gets neither a delete call nor a publish.
C23_Original ==
    /\ \A i \in 1..Len(Deletes) :
          Deletes[i].channel # "" /\ Deletes[i].timestamp # ""
    /\ \A i \in 1..Len(Publishes) :
          Publishes[i].message[1][2] # "" /\ Publishes[i].message[2][2] # ""
    /\ (Handling /\ Decodable /\ payload.type = "reaction_added"
           /\ payload.item.type = "message"
           /\ (Text(payload.item.channel) = "" \/ Text(payload.item.ts) = "")) =>
          calls = <<>>

====
